---------------------------- MODULE Spec2Model ----------------------------
(* MedAtlas core: AtlasGraph (src/src/core/atlas_graph.py).                *)
(* A graph container: a dict of nodes keyed by id and a list of edges,     *)
(* each edge carrying a list of evidence references.                       *)
EXTENDS Naturals, Sequences, FiniteSets, TLC

VARIABLES
    nodes,      \* AtlasGraph.nodes : dict[str, Node]
    edges,      \* AtlasGraph.edges : list[Edge]
    ret,        \* how the most recent call ended: "None" or the error raised
    calls,      \* history: the arguments of add_edge, in call order
    dangled,    \* history: edges submitted while an endpoint was missing
    lastNode,   \* history: the most recent sequential add_node call
    pc,         \* per thread: position inside add_node
    arg         \* per thread: the node add_node was called with

vars == <<nodes, edges, ret, calls, dangled, lastNode, pc, arg>>

-----------------------------------------------------------------------------
(* Input domains *)

\* Largest number of add_edge calls explored.
MaxEdges == 2

Ids == {"patient/1", "obs/1"}

NodeKinds == {"Patient", "Observation"}

\* payload: dict, kept as an opaque value
Payloads == {"{}"}

Source == {"fhir", "lab"}

\* EvidenceRef(source, id); uri and captured_at keep their default None
Ref1 == [source |-> "fhir", id |-> "Observation/1"]
Ref2 == [source |-> "lab", id |-> "Result/7"]

EvidenceRef == {Ref1, Ref2}

Node == [id : Ids, kind : NodeKinds, payload : Payloads]

\* The evidence lists an edge is built with: empty, one reference, and the
\* same two references in both orders.
EvidenceLists == { <<>>, <<Ref1>>, <<Ref1, Ref2>>, <<Ref2, Ref1>> }

Edge == [src : Ids, dst : Ids, kind : {"subject"}, evidence : EvidenceLists]

Threads == {"t1", "t2"}

NoNode == [id |-> "", kind |-> "", payload |-> ""]

NoCall == [node |-> NoNode, present |-> FALSE]

EmptyNodes == [k \in {} |-> NoNode]

-----------------------------------------------------------------------------
(* The code, as operators on the containers *)

\* `node.id in self.nodes`
contains(ns, id) == id \in DOMAIN ns

\* `self.nodes[key] = node`
setitem(ns, key, node) ==
    [k \in (DOMAIN ns) \cup {key} |-> IF k = key THEN node ELSE ns[k]]

\* add_node without the membership test: every call stores.
add_node_overwrite(ns, node) == setitem(ns, node.id, node)

\* add_node keyed by the node's kind instead of its id.
add_node_by_kind(ns, node) ==
    IF contains(ns, node.kind) THEN ns ELSE setitem(ns, node.kind, node)

\* AtlasGraph.add_node
add_node(ns, node) ==
    IF contains(ns, node.id) THEN ns ELSE setitem(ns, node.id, node)

RECURSIVE Reverse(_)
Reverse(s) == IF s = <<>> THEN <<>> ELSE Append(Reverse(Tail(s)), Head(s))

\* add_edge storing the evidence list newest-first.
add_edge_reversed(es, edge) ==
    Append(es, [edge EXCEPT !.evidence = Reverse(edge.evidence)])

\* add_edge that skips an edge already in the list.
add_edge_dedup(es, edge) ==
    IF \E i \in 1..Len(es) : es[i] = edge THEN es ELSE Append(es, edge)

\* add_edge that inserts at the front of the list.
add_edge_front(es, edge) == <<edge>> \o es

\* AtlasGraph.add_edge
add_edge(es, edge) == Append(es, edge)

\* An endpoint of the edge is not a key of the node mapping.
Dangling(edge, ns) == ~contains(ns, edge.src) \/ ~contains(ns, edge.dst)

-----------------------------------------------------------------------------
(* Sequential callers: each call is one step *)

Init ==
    /\ nodes = EmptyNodes
    /\ edges = <<>>
    /\ ret = "None"
    /\ calls = <<>>
    /\ dangled = {}
    /\ lastNode = NoCall
    /\ pc = [t \in Threads |-> "idle"]
    /\ arg = [t \in Threads |-> NoNode]

AddNode(node) ==
    /\ nodes' = add_node(nodes, node)
    /\ ret' = "None"
    /\ lastNode' = [node |-> node, present |-> contains(nodes, node.id)]
    /\ UNCHANGED <<edges, calls, dangled, pc, arg>>

AddEdge(edge) ==
    /\ Len(calls) < MaxEdges
    /\ edges' = add_edge(edges, edge)
    /\ ret' = "None"
    /\ calls' = Append(calls, edge)
    /\ dangled' = IF Dangling(edge, nodes) THEN dangled \cup {edge} ELSE dangled
    /\ UNCHANGED <<nodes, lastNode, pc, arg>>

Next ==
    \/ \E node \in Node : AddNode(node)
    \/ \E edge \in Edge : AddEdge(edge)

Spec == Init /\ [][Next]_vars

-----------------------------------------------------------------------------
(* Concurrent callers of add_node: the membership test (line 46) and the   *)
(* store (line 48) are separate steps of each thread.                      *)

Call(t, node) ==
    /\ pc[t] = "idle"
    /\ pc' = [pc EXCEPT ![t] = "test"]
    /\ arg' = [arg EXCEPT ![t] = node]
    /\ UNCHANGED <<nodes, edges, ret, calls, dangled, lastNode>>

Test(t) ==
    /\ pc[t] = "test"
    /\ IF contains(nodes, arg[t].id)
       THEN /\ pc' = [pc EXCEPT ![t] = "idle"]
            /\ arg' = [arg EXCEPT ![t] = NoNode]
       ELSE /\ pc' = [pc EXCEPT ![t] = "store"]
            /\ arg' = arg
    /\ UNCHANGED <<nodes, edges, ret, calls, dangled, lastNode>>

Store(t) ==
    /\ pc[t] = "store"
    /\ nodes' = setitem(nodes, arg[t].id, arg[t])
    /\ pc' = [pc EXCEPT ![t] = "idle"]
    /\ arg' = [arg EXCEPT ![t] = NoNode]
    /\ UNCHANGED <<edges, ret, calls, dangled, lastNode>>

NextConc ==
    \/ \E t \in Threads : \E node \in Node : Call(t, node)
    \/ \E t \in Threads : Test(t)
    \/ \E t \in Threads : Store(t)

SpecConc == Init /\ [][NextConc]_vars

-----------------------------------------------------------------------------
(* Helpers for the properties *)

IsPrefix(s, t) == Len(s) <= Len(t) /\ SubSeq(t, 1, Len(s)) = s

Occurrences(es, edge) == Cardinality({i \in 1..Len(es) : es[i] = edge})

-----------------------------------------------------------------------------
(* Properties *)

\* C1: add_node(n) with n.id already a key is a no-op: the node mapping
\* (so the node first stored under that id) and the edge sequence are
\* unchanged; and adding n twice gives the same mapping as adding it once.
C1_IdempotentInsertion ==
    /\ [][\A node \in Node :
            (AddNode(node) /\ contains(nodes, node.id))
                => (nodes' = nodes /\ edges' = edges)]_vars
    /\ [](\A node \in Node :
            add_node(add_node(nodes, node), node) = add_node(nodes, node))

\* C1 witness: add_node was just called with an id already present and a
\* node different from the stored one.
C1_Witness ==
    /\ lastNode.present
    /\ contains(nodes, lastNode.node.id)
    /\ nodes[lastNode.node.id] # lastNode.node

\* C2: add_edge(e) with a missing endpoint fails with DanglingReference and
\* leaves the node mapping and the edge sequence unchanged.
C2_DanglingEdgeRejected ==
    [][\A edge \in Edge :
          (AddEdge(edge) /\ Dangling(edge, nodes))
              => (ret' = "DanglingReference" /\ edges' = edges /\ nodes' = nodes)]_vars

\* C3: every edge in the edge sequence has both endpoints among the keys of
\* the node mapping.
C3_NoDanglingEdges ==
    \A i \in 1..Len(edges) :
        contains(nodes, edges[i].src) /\ contains(nodes, edges[i].dst)

\* C4: every edge in the edge sequence carries a non-empty evidence list.
C4_NonEmptyEvidence ==
    \A i \in 1..Len(edges) : edges[i].evidence # <<>>

\* C5: an edge first submitted while an endpoint was missing, and submitted
\* again once both endpoints are present, is accepted and then occurs exactly
\* once in the edge sequence.
C5_RetryLeavesOneCopy ==
    [][\A edge \in Edge :
          (AddEdge(edge) /\ edge \in dangled /\ ~Dangling(edge, nodes))
              => (ret' = "None" /\ Occurrences(edges', edge) = 1)]_vars

\* C6: every step keeps all node ids, keeps the node stored under each
\* existing id, and extends the edge sequence (the old sequence is a prefix
\* of the new one).
C6_Monotonic ==
    [][/\ DOMAIN nodes \subseteq DOMAIN nodes'
       /\ \A k \in DOMAIN nodes : nodes'[k] = nodes[k]
       /\ IsPrefix(edges, edges')]_vars

\* C6 witness: both ids are stored and two edges have been appended.
C6_Witness == DOMAIN nodes = Ids /\ Len(edges) >= 2 /\ edges[1] # edges[2]

\* C7: each key of the node mapping maps to a node whose id is that key.
C7_KeyEqualsId == \A k \in DOMAIN nodes : nodes[k].id = k

\* C7 witness: every id is stored and the last add_node found its id present.
C7_Witness == DOMAIN nodes = Ids /\ lastNode.present

\* C8: the evidence list of every committed edge is the list that edge was
\* submitted with, same elements in the same order, whatever calls follow.
C8_ProvenanceRoundTrip ==
    /\ Len(edges) = Len(calls)
    /\ \A i \in 1..Len(calls) : edges[i].evidence = calls[i].evidence

\* C8 witness: an edge with two evidence references was committed, and an
\* add_edge and an add_node followed it.
C8_Witness ==
    /\ Len(edges) >= 2
    /\ Len(edges[1].evidence) = 2
    /\ lastNode # NoCall

\* C9: add_edge always appends: the edge sequence is the sequence of add_edge
\* arguments in call order, each call puts its argument at the end, and the
\* node mapping is untouched.
C9_UnconditionalAppend ==
    /\ [](edges = calls)
    /\ [][\A edge \in Edge :
            AddEdge(edge) => (edges' = Append(edges, edge) /\ nodes' = nodes)]_vars

\* C9 witness: the same dangling, evidence-free edge was appended twice.
C9_Witness ==
    /\ Len(edges) >= 2
    /\ edges[1] = edges[2]
    /\ Dangling(edges[1], nodes)
    /\ edges[1].evidence = <<>>

\* C10: with the test and the store of add_node interleaving between
\* threads, no step replaces a node already stored under an id.
C10_FirstWriterWins ==
    [][\A k \in DOMAIN nodes :
          contains(nodes', k) /\ nodes'[k] = nodes[k]]_vars

=============================================================================
